---------------------------- MODULE Spec2Model ----------------------------
(***************************************************************************)
(* Oracle canister: the identity-registration machine (Account), the       *)
(* contract-deployment machine (ContractService), the nonce cell and the   *)
(* EVM-canister gateway (EvmCanisterImpl).                                 *)
(*                                                                         *)
(* The canister runs one message at a time; an update call yields only at  *)
(* an .await on a call to the EVM canister.  Every action below is one     *)
(* such synchronous turn: the entry of an endpoint up to its first .await  *)
(* (or its return), or the resumption after an .await up to the next one   *)
(* (or the return).                                                        *)
(***************************************************************************)
EXTENDS Integers, Sequences, FiniteSets, Bags

(* ------------------------------ bounds -------------------------------- *)
\* number of update calls that can be suspended on a remote call at the same time
MaxInv == 2
\* H160 values are 1..MaxAddr
MaxAddr == 1
\* non-zero H256 transaction hashes are 1..MaxHash
MaxHash == 2
\* the nonce counter is kept within 1..MaxNonce
MaxNonce == 4

Addr == 1..MaxAddr
Hash == 1..MaxHash
Nonce == 1..MaxNonce

(* ------------------------------ values -------------------------------- *)
\* Option<H160>::None
NoAddr == -1
\* H160::zero(), and the addresses a receipt can carry: nothing in the canister's
\* code excludes H160::zero()
H160_zero == 0
H160 == {H160_zero} \cup Addr

\* AccountState / ContractStatus: Unregistered, RegistrationInProgress, Registered(H160)
Unregistered == [tag |-> "Unregistered", addr |-> NoAddr]
RegistrationInProgress == [tag |-> "RegistrationInProgress", addr |-> NoAddr]
Registered(a) == [tag |-> "Registered", addr |-> a]
Status == {Unregistered, RegistrationInProgress} \cup {Registered(a) : a \in H160}

\* H256::zero(), the "nothing pending" sentinel of CONTRACT_REGISTRATION_TX_HASH
H256_zero == 0
\* the transaction hashes a submission can be answered with: nothing in the
\* canister's code excludes H256::zero()
H256 == {H256_zero} \cup Hash
\* U256::one(), the initial value of NONCE_CELL
U256_one == 1
\* U256::zero(), the value of the transactions the canister submits
U256_zero == 0
\* a remote call that carries no TransactionParams has no value
NoValue == -1

\* TransactionReceipt: status is None (NoStatus), Some(0) or Some(1);
\* contract_address is None (NoAddr) or Some(address).  Option<TransactionReceipt>
\* is a receipt (some) or NoReceipt.
NoStatus == -1
Receipt == [some : {TRUE}, status : {NoStatus, 0, 1}, contract_address : H160 \cup {NoAddr}]
NoReceipt == [some |-> FALSE, status |-> NoStatus, contract_address |-> NoAddr]

\* Result<T, Error>: the payload is a number (a hash, an address, a flag, 0 for
\* unit) or, for the receipt call, an Option<TransactionReceipt>
Ok(v, rc) == [ok |-> TRUE, err |-> "none", val |-> v, receipt |-> rc]
Err(e) == [ok |-> FALSE, err |-> e, val |-> 0, receipt |-> NoReceipt]

(* ----------------------- build data (build_data.rs) -------------------- *)
\* The bytecode texts the build script can be handed, as their characters.  It
\* embeds the bytecode_hex of the compilation as it is, unchecked: plain hex, but
\* also a prefixed text, a text with an odd number of digits, or no code at all.
aggregator_single_contract_hex ==
    {<<"6", "0">>, <<"0", "x", "6", "0">>, <<"6", "0", "8">>, <<>>}

\* the hex digits, in the order of their values
LowerHex == <<"0", "1", "2", "3", "4", "5", "6", "7", "8", "9", "a", "b", "c", "d", "e", "f">>
UpperHex == <<"0", "1", "2", "3", "4", "5", "6", "7", "8", "9", "A", "B", "C", "D", "E", "F">>
IsHexDigit(ch) == \E i \in 1..16 : ch = LowerHex[i] \/ ch = UpperHex[i]
HexValue(ch) == (CHOOSE i \in 1..16 : ch = LowerHex[i] \/ ch = UpperHex[i]) - 1

\* hex::decode: an odd length fails first, then a character that is no hex digit;
\* otherwise each pair of digits is one byte
hex_decode(text) ==
    IF Len(text) % 2 # 0
    THEN [ok |-> FALSE, err |-> "OddLength", bytes |-> <<>>]
    ELSE IF \E i \in 1..Len(text) : ~IsHexDigit(text[i])
    THEN [ok |-> FALSE, err |-> "InvalidHexCharacter", bytes |-> <<>>]
    ELSE [ok |-> TRUE, err |-> "none",
          bytes |-> [i \in 1..(Len(text) \div 2) |->
                        16 * HexValue(text[2 * i - 1]) + HexValue(text[2 * i])]]

\* get_aggregator_single_smart_contract_code: the embedded text, decoded
get_aggregator_single_smart_contract_code(text) == hex_decode(text)

\* the test of build_data.rs: the embedded text decodes, to some code
should_get_aggregator_single_smart_contract_code(text) ==
    /\ get_aggregator_single_smart_contract_code(text).ok
    /\ get_aggregator_single_smart_contract_code(text).bytes # <<>>

\* The bytecode text of a build of the repository: one that passes the test
BuildArtifacts ==
    {text \in aggregator_single_contract_hex :
        should_get_aggregator_single_smart_contract_code(text)}

\* the texts eth_get_code is answered with, by their numbers
CodeTexts == <<<<"6", "0">>, <<"0", "x", "6", "0">>, <<"6", "0", "8">>>>

(* -------------- Storable for ContractStatus (contract.rs) -------------- *)
\* An address is named by the number its 20 bytes are, big-endian; the cell is
\* also set to the statuses of the addresses 0..MaxStored, 0 being H160_zero
MaxStored == 260
\* the length of an H160, and of the stored status (MAX_SIZE, IS_FIXED_SIZE)
MAX_SIZE == 20
\* hash.0 .0: the 20 bytes of the H160 of the address a (a is below 256^3)
H160_bytes(a) ==
    [i \in 1..MAX_SIZE |->
        IF MAX_SIZE - i < 3 THEN (a \div 256^(MAX_SIZE - i)) % 256 ELSE 0]

\* the statuses the cell is set to
ContractStatus ==
    {Unregistered, RegistrationInProgress} \cup {Registered(a) : a \in 0..MaxStored}

UNREGISTERED_DATA == [i \in 1..MAX_SIZE |-> 0]
REGISTRATION_IN_PROGRESS_DATA == [i \in 1..MAX_SIZE |-> 1]

\* H160::from_slice: the address whose bytes the first n bytes of the slice are
RECURSIVE H160_from_prefix(_, _)
H160_from_prefix(bytes, n) ==
    IF n = 0 THEN 0 ELSE H160_from_prefix(bytes, n - 1) * 256 + bytes[n]

H160_from_slice(bytes) == H160_from_prefix(bytes, MAX_SIZE)

\* Storable::to_bytes and Storable::from_bytes of ContractStatus
to_bytes(st) ==
    CASE st.tag = "Unregistered" -> UNREGISTERED_DATA
      [] st.tag = "RegistrationInProgress" -> REGISTRATION_IN_PROGRESS_DATA
      [] st.tag = "Registered" -> H160_bytes(st.addr)

from_bytes(bytes) ==
    IF bytes = UNREGISTERED_DATA
    THEN Unregistered
    ELSE IF bytes = REGISTRATION_IN_PROGRESS_DATA
    THEN RegistrationInProgress
    ELSE Registered(H160_from_slice(bytes))

(* --------------------------- remote responses ------------------------- *)
\* What a canister_call! resolves to: a reject (transport failure), or a reply
\* carrying an EvmResult: Ok(payload), Err(InvalidNonce{expected}), Err(other).
Response(k, e, v, rc) == [kind |-> k, expected |-> e, val |-> v, receipt |-> rc]
NoResponse == Response("none", 0, 0, NoReceipt)
Reject == Response("reject", 0, 0, NoReceipt)
InvalidNonce(e) == Response("invalid_nonce", e, 0, NoReceipt)
EvmErrorOther == Response("evm_error", 0, 0, NoReceipt)
Reply(v) == Response("ok", 0, v, NoReceipt)
ReplyReceipt(rc) == Response("ok", 0, 0, rc)
Failures == {Reject, EvmErrorOther} \cup {InvalidNonce(e) : e \in Nonce}

\* what each remote call can resolve to; account_basic and
\* eth_get_transaction_by_hash reply with no EvmResult: a reject or a payload
\* (a balance; no transaction or one)
Responses(call) ==
    IF call \in {"account_basic", "eth_get_transaction_by_hash"}
    THEN {Reject, Reply(0), Reply(1)}
    ELSE Failures \cup
         CASE call = "is_address_registered" -> {Reply(0), Reply(1)}
           [] call \in {"create_contract", "call_message", "send_raw_transaction"} ->
                 {Reply(h) : h \in H256}
           [] call = "eth_get_transaction_receipt" ->
                 {ReplyReceipt(rc) : rc \in Receipt \cup {NoReceipt}}
           [] call = "eth_get_code" -> {Reply(i) : i \in 1..Len(CodeTexts)}
           [] call = "deposit_tokens" -> {Reply(0), Reply(1)}
           [] OTHER -> {Reply(0)}

(* ----------------------- principals (canister.rs) ---------------------- *)
\* principals are 0..MaxPrincipal, 0 being Principal::anonymous()
MaxPrincipal == 2
Principal_anonymous == 0
Principals == 0..MaxPrincipal
\* the pairs are 1..MaxPair
MaxPair == 1
Pairs == 1..MaxPair
\* at most MaxTimers interval timers are started
MaxTimers == 1

\* the init argument: an owner, and the EVM canister
InitData == [owner |-> 1, evmc_principal |-> MaxPrincipal]

(* ------------------------------- state -------------------------------- *)
VARIABLES
    ACCOUNT_DATA_CELL,              \* the registration status (account.rs)
    CONTRACT_REGISTRATION_STATE,    \* the deployment status (contract.rs)
    CONTRACT_REGISTRATION_TX_HASH,  \* the pending deployment transaction (contract.rs)
    NONCE_CELL,                     \* the nonce counter (evm_canister.rs)
    BUILD_SMART_CONTRACT_AGGREGATOR_SINGLE_HEX_CODE,
                    \* the bytecode text the build embeds (build_data.rs)
    evmc_nonce,     \* the nonce the EVM canister expects next from this account
    pending,        \* the update calls suspended on a remote call (a bag)
    ret,            \* history: what the last turn was, sent, got and returned
    resetInFlight,  \* history: reset() ran while a register_account was suspended
    failedAt,       \* history: the step the last register_account failed at (0: none)
    scenarioA,      \* history: how far a deploy, confirm, deploy sequence has come
    status_bytes,   \* the bytes of CONTRACT_REGISTRATION_STATE in stable memory
    status_set,     \* history: the deployment status last set
    restarted,      \* history: the cell was read back from stable memory since
    owner,          \* Settings: the principal of the canister's owner
    evmc_principal, \* Settings: the principal of the EVM canister
    pairs,          \* PairPrice: the pairs the canister keeps prices of
    prices,         \* PairPrice: the pairs that have a latest price
    timers          \* the interval timers started

vars == <<ACCOUNT_DATA_CELL, CONTRACT_REGISTRATION_STATE, CONTRACT_REGISTRATION_TX_HASH,
          NONCE_CELL, BUILD_SMART_CONTRACT_AGGREGATOR_SINGLE_HEX_CODE, evmc_nonce,
          pending, ret, resetInFlight, failedAt, scenarioA,
          status_bytes, status_set, restarted,
          owner, evmc_principal, pairs, prices, timers>>

\* the persisted cells
cells == <<ACCOUNT_DATA_CELL, CONTRACT_REGISTRATION_STATE, CONTRACT_REGISTRATION_TX_HASH,
           NONCE_CELL>>

\* the notes taken of the turns run, for the properties of sequences of calls
notes == <<failedAt, scenarioA>>

\* the stable memory of the deployment status cell, and the notes taken of it
storage == <<status_bytes, status_set, restarted>>

\* the state of the canister's shell: its settings, its pairs and its timers
shell == <<owner, evmc_principal, pairs, prices, timers>>

\* what no turn of the update calls below writes: the build's constant, the state
\* of the EVM canister, the notes and the shell's state
environment ==
    <<BUILD_SMART_CONTRACT_AGGREGATOR_SINGLE_HEX_CODE, evmc_nonce, notes, shell>>

\* what a turn that does not set the deployment status leaves alone
outside == <<environment, storage>>

\* an update call suspended on its step-th remote call; arg is the sender of the
\* transaction (register_account) or the hash read (confirm_contract_address);
\* got is the response the EVM canister has produced for it, when it has
Suspended(o, a, k) == [op |-> o, arg |-> a, step |-> k, got |-> NoResponse]

\* the remote call sent in a turn: its name and the address it is about; a
\* submission (create_contract, call_message) also carries the nonce and the value
\* of its TransactionParams
Sent(c, n, to) == [call |-> c, nonce |-> n, to |-> to, value |-> NoValue]
Submitted(c, tx_params, to) ==
    [call |-> c, nonce |-> tx_params.nonce, to |-> to, value |-> tx_params.value]
NoCall == Sent("none", 0, NoAddr)

\* a turn of the update call o(a): its entry or the resumption of its step-th
\* remote call with the response got; it ends suspended on the call sent, or
\* returns out
Suspend(o, t, a, k, got, sent) ==
    [op |-> o, turn |-> t, pc |-> "await", arg |-> a, step |-> k, got |-> got,
     sent |-> sent, res |-> "none", val |-> 0]
Return(o, t, a, k, got, out) ==
    [op |-> o, turn |-> t, pc |-> "done", arg |-> a, step |-> k, got |-> got,
     sent |-> NoCall, res |-> out.err, val |-> out.val]
NoTurn == [op |-> "none", turn |-> "none", pc |-> "done", arg |-> 0, step |-> 0,
           got |-> NoResponse, sent |-> NoCall, res |-> "none", val |-> 0]

\* the suspended calls of o, and how many they are
InFlight(o) == {c \in BagToSet(pending) : c.op = o}
NumInFlight(o) == BagCardinality([c \in InFlight(o) |-> pending[c]])
CanSuspend == BagCardinality(pending) < MaxInv
Add(c) == pending (+) SetToBag({c})
Remove(c) == pending (-) SetToBag({c})

Init ==
    /\ ACCOUNT_DATA_CELL = Unregistered
    /\ CONTRACT_REGISTRATION_STATE = Unregistered
    /\ CONTRACT_REGISTRATION_TX_HASH = H256_zero
    /\ NONCE_CELL = U256_one
    /\ BUILD_SMART_CONTRACT_AGGREGATOR_SINGLE_HEX_CODE \in BuildArtifacts
    /\ evmc_nonce = U256_one
    /\ pending = EmptyBag
    /\ ret = NoTurn
    /\ resetInFlight = FALSE
    /\ failedAt = 0
    /\ scenarioA = 0
    /\ status_bytes = to_bytes(Unregistered)
    /\ status_set = Unregistered
    /\ restarted = FALSE
    /\ owner = InitData.owner
    /\ evmc_principal = InitData.evmc_principal
    /\ pairs = {}
    /\ prices = {}
    /\ timers = 0

(* --------------------- Account (evm_canister/account.rs) --------------- *)
\* fault: the address is handed out whatever the status
get_account_any(acc) == Ok(acc.addr, NoReceipt)

\* Account::get_account
get_account(acc) ==
    IF acc.tag = "Registered"
    THEN Ok(acc.addr, NoReceipt)
    ELSE Err("Account no registered yet")

\* faults of the check-and-set: a check that does not set, and a check that
\* looks for Registered only
account_check_without_set(acc) ==
    [rejected |-> acc # Unregistered, cell |-> acc]
account_check_registered_only(acc) ==
    IF acc.tag = "Registered"
    THEN [rejected |-> TRUE, cell |-> acc]
    ELSE [rejected |-> FALSE, cell |-> RegistrationInProgress]

\* fault: a check that looks for RegistrationInProgress only
account_check_in_progress_only(acc) ==
    IF acc = RegistrationInProgress
    THEN [rejected |-> TRUE, cell |-> acc]
    ELSE [rejected |-> FALSE, cell |-> RegistrationInProgress]

\* the check-and-set at the entry of register_account: the closure's value
\* (TRUE: already registered or in process) and the cell after it
account_check_and_set(acc) ==
    IF acc = Unregistered
    THEN [rejected |-> FALSE, cell |-> RegistrationInProgress]
    ELSE [rejected |-> TRUE, cell |-> acc]

\* fault: a reset that writes nothing
reset_keeps(acc) == acc

\* fault: a reset that spares a registration in progress
reset_unless_in_progress(acc) ==
    IF acc = RegistrationInProgress THEN acc ELSE Unregistered

\* Account::reset: the cell after it, whatever it held
reset(acc) == Unregistered

\* fault: the final write leaves the registration in progress
register_final_in_progress(address) == RegistrationInProgress

\* the write that ends a register_account whose four calls succeeded
register_final(address) == Registered(address)

\* fault: the tokens are minted before the address is looked up
RegisterSteps_mint_first ==
    <<"mint_evm_tokens", "is_address_registered", "register_ic_agent", "verify_registration">>

\* the remote calls of register_account, in the order it issues them
RegisterSteps ==
    <<"is_address_registered", "mint_evm_tokens", "register_ic_agent", "verify_registration">>

(* ------------------ EvmCanisterImpl (evm_canister.rs) ------------------ *)
\* fault: the incremented value is returned
get_nonce_returns_new(cell) == [value |-> cell + 1, cell |-> cell + 1]

\* get_nonce: the value it returns and the cell after it
get_nonce(cell) == [value |-> cell, cell |-> cell + 1]

\* process_call: a reject becomes Error::Internal("ic call failure")
process_call(result) ==
    IF result.kind = "reject"
    THEN Err("ic call failure")
    ELSE Ok(result.val, result.receipt)

\* faults of process_call_result: the expected nonce is not stored; it is stored
\* only when it is lower; the corrected call is reported as a success
process_call_result_without_reconcile(result, cell) ==
    IF ~process_call(result).ok
    THEN [out |-> process_call(result), cell |-> cell]
    ELSE IF result.kind \in {"invalid_nonce", "evm_error"}
    THEN [out |-> Err("transaction error"), cell |-> cell]
    ELSE [out |-> process_call(result), cell |-> cell]
process_call_result_backward_only(result, cell) ==
    IF ~process_call(result).ok
    THEN [out |-> process_call(result), cell |-> cell]
    ELSE IF result.kind = "invalid_nonce"
    THEN [out |-> Err("transaction error"),
          cell |-> IF result.expected < cell THEN result.expected ELSE cell]
    ELSE IF result.kind = "evm_error"
    THEN [out |-> Err("transaction error"), cell |-> cell]
    ELSE [out |-> process_call(result), cell |-> cell]
process_call_result_corrected_is_ok(result, cell) ==
    IF ~process_call(result).ok
    THEN [out |-> process_call(result), cell |-> cell]
    ELSE IF result.kind = "invalid_nonce"
    THEN [out |-> process_call(result), cell |-> result.expected]
    ELSE IF result.kind = "evm_error"
    THEN [out |-> Err("transaction error"), cell |-> cell]
    ELSE [out |-> process_call(result), cell |-> cell]

\* fault: the nonce of a call that failed otherwise is given back
process_call_result_returns_nonce(result, cell) ==
    IF ~process_call(result).ok
    THEN [out |-> process_call(result), cell |-> cell - 1]
    ELSE IF result.kind = "invalid_nonce"
    THEN [out |-> Err("transaction error"), cell |-> result.expected]
    ELSE IF result.kind = "evm_error"
    THEN [out |-> Err("transaction error"), cell |-> cell - 1]
    ELSE [out |-> process_call(result), cell |-> cell]

\* fault: a call that failed in transit sets the counter back to one, as
\* EvmCanisterImpl::reset would
process_call_result_resets(result, cell) ==
    IF ~process_call(result).ok
    THEN [out |-> process_call(result), cell |-> U256_one]
    ELSE IF result.kind = "invalid_nonce"
    THEN [out |-> Err("transaction error"), cell |-> result.expected]
    ELSE IF result.kind = "evm_error"
    THEN [out |-> Err("transaction error"), cell |-> cell]
    ELSE [out |-> process_call(result), cell |-> cell]

\* process_call_result: the Result handed to the caller and the nonce cell after it
process_call_result(result, cell) ==
    IF ~process_call(result).ok
    THEN [out |-> process_call(result), cell |-> cell]
    ELSE IF result.kind = "invalid_nonce"
    THEN [out |-> Err("transaction error"), cell |-> result.expected]
    ELSE IF result.kind = "evm_error"
    THEN [out |-> Err("transaction error"), cell |-> cell]
    ELSE [out |-> process_call(result), cell |-> cell]

\* fault: register_ic_agent takes a nonce
register_ic_agent_takes_nonce(result, cell) ==
    [out |-> process_call(result), cell |-> get_nonce(cell).cell]

\* register_ic_agent and verify_registration hand the call's result to
\* process_call_result
register_ic_agent(result, cell) == process_call_result(result, cell)
verify_registration(result, cell) == process_call_result(result, cell)

\* is_address_registered and mint_evm_tokens: gateway operations like the two
\* above (the reply goes through both layers of error translation); the first
\* replies with a flag
is_address_registered(result, cell) == process_call_result(result, cell)
mint_evm_tokens(result, cell) == process_call_result(result, cell)

\* send_raw_transaction and deposit hand the call's result to process_call_result
send_raw_transaction(result, cell) == process_call_result(result, cell)
deposit(result, cell) == process_call_result(result, cell)

\* get_contract_code: the text of the reply is decoded
get_contract_code(result, cell) ==
    LET r == process_call_result(result, cell)
    IN  IF r.out.ok /\ ~hex_decode(CodeTexts[r.out.val]).ok
        THEN [out |-> Err("failed to decode contract code"), cell |-> r.cell]
        ELSE r

\* get_balance and get_transaction_by_hash hand the call's result to process_call:
\* the nonce cell is not looked at
get_balance(result, cell) == [out |-> process_call(result), cell |-> cell]
get_transaction_by_hash(result, cell) == [out |-> process_call(result), cell |-> cell]

\* the result of the step-th remote call of register_account
register_step(step, result, cell) ==
    CASE step = 1 -> is_address_registered(result, cell)
      [] step = 2 -> mint_evm_tokens(result, cell)
      [] step = 3 -> register_ic_agent(result, cell)
      [] step = 4 -> verify_registration(result, cell)

\* fault: the nonce is read and the counter left as it is
get_tx_params_without_increment(acc, cell, value) ==
    IF ~get_account(acc).ok
    THEN [ok |-> FALSE, err |-> get_account(acc).err, from |-> NoAddr, value |-> value,
          nonce |-> 0, cell |-> cell]
    ELSE [ok |-> TRUE, err |-> "none", from |-> get_account(acc).val, value |-> value,
          nonce |-> cell, cell |-> cell]

\* fault: the nonce is taken before `from` is read
get_tx_params_nonce_first(acc, cell, value) ==
    IF ~get_account(acc).ok
    THEN [ok |-> FALSE, err |-> get_account(acc).err, from |-> NoAddr, value |-> value,
          nonce |-> 0, cell |-> get_nonce(cell).cell]
    ELSE [ok |-> TRUE, err |-> "none", from |-> get_account(acc).val, value |-> value,
          nonce |-> get_nonce(cell).value, cell |-> get_nonce(cell).cell]

\* get_tx_params: `from` is read first (and fails the call when the account is not
\* registered), the nonce is taken after it
get_tx_params(acc, cell, value) ==
    IF ~get_account(acc).ok
    THEN [ok |-> FALSE, err |-> get_account(acc).err, from |-> NoAddr, value |-> value,
          nonce |-> 0, cell |-> cell]
    ELSE [ok |-> TRUE, err |-> "none", from |-> get_account(acc).val, value |-> value,
          nonce |-> get_nonce(cell).value, cell |-> get_nonce(cell).cell]

(* ------------- ContractService (evm_canister/contract.rs) -------------- *)
\* fault: a check that does not set
contract_check_without_set(st) ==
    [rejected |-> st # Unregistered, cell |-> st]

\* fault: a check that looks for Registered only
contract_check_registered_only(st) ==
    IF st.tag = "Registered"
    THEN [rejected |-> TRUE, cell |-> st]
    ELSE [rejected |-> FALSE, cell |-> RegistrationInProgress]

\* the check-and-set at the entry of init_contract
contract_check_and_set(st) ==
    IF st # Unregistered
    THEN [rejected |-> TRUE, cell |-> st]
    ELSE [rejected |-> FALSE, cell |-> RegistrationInProgress]

\* Constructor::encode_input: the tokens are checked against the constructor's
\* inputs, then appended (encoded) to the code
encode_input(inputs, code, tokens) ==
    IF Len(tokens) # Len(inputs)
    THEN [ok |-> FALSE, err |-> "failed to encode contract constructor args", bytes |-> <<>>]
    ELSE [ok |-> TRUE, err |-> "none", bytes |-> code \o tokens]

\* the payload init_contract builds between its check-and-set and create_contract:
\* the decoded bytecode, then the constructor (no inputs) encoded with no arguments
contract_data(text) ==
    IF ~get_aggregator_single_smart_contract_code(text).ok
    THEN get_aggregator_single_smart_contract_code(text)
    ELSE encode_input(<<>>, get_aggregator_single_smart_contract_code(text).bytes, <<>>)

\* fault: the status test inverted
get_created_contract_address_inverted(result) ==
    IF result.status # 1 THEN result.contract_address ELSE NoAddr

\* get_created_contract_address: Some(address) or None (NoAddr)
get_created_contract_address(result) ==
    IF result.status = 1 THEN result.contract_address ELSE NoAddr

\* the match on the receipt call's result in confirm_contract_address
addr_opt(out) ==
    IF out.ok /\ out.receipt.some
    THEN get_created_contract_address(out.receipt)
    ELSE NoAddr

\* fault: the pending hash is never tested
nothing_pending_never(hash) == FALSE

\* the test on the pending hash at the entry of confirm_contract_address
nothing_pending(hash) == hash = H256_zero

\* fault: the address is handed out whatever the status
get_contract_any(st) == Ok(st.addr, NoReceipt)

\* ContractService::get_contract
get_contract(st) ==
    IF st.tag = "Registered" THEN Ok(st.addr, NoReceipt) ELSE Err("ContractNotRegistered")

(* ------------------------------ actions ------------------------------- *)
\* The canister runs one turn at a time.  ret records the turn just run; it is
\* cleared before the next turn runs, so that it describes one turn only.
Ready == ret = NoTurn

\* StableCell::set on CONTRACT_REGISTRATION_STATE: the cell keeps the value and
\* writes its bytes to stable memory
StableCell_set(st) ==
    /\ CONTRACT_REGISTRATION_STATE' = st
    /\ status_bytes' = to_bytes(st)
    /\ status_set' = st
    /\ restarted' = FALSE

\* the deployment status cell, its value and its stable memory
status_cell == <<CONTRACT_REGISTRATION_STATE, storage>>

Forget ==
    /\ ret # NoTurn
    /\ ret' = NoTurn
    /\ UNCHANGED outside
    /\ UNCHANGED <<ACCOUNT_DATA_CELL, CONTRACT_REGISTRATION_STATE,
                   CONTRACT_REGISTRATION_TX_HASH, NONCE_CELL, pending, resetInFlight>>

\* the history variable: set by a reset() that runs while a register_account is
\* suspended, cleared when the last suspended register_account has returned
AfterReturn(c) ==
    resetInFlight /\ [d \in InFlight("register") |-> pending[d]] # SetToBag({c})

\* register_account, from its entry to its first .await (account.rs 31-56)
register_account(from) ==
    /\ Ready /\ UNCHANGED outside
    /\ IF account_check_and_set(ACCOUNT_DATA_CELL).rejected
       THEN /\ ret' = Return("register", "entry", from, 0, NoResponse,
                             Err("Account already registered"))
            /\ UNCHANGED <<ACCOUNT_DATA_CELL, pending>>
       ELSE /\ CanSuspend
            /\ ACCOUNT_DATA_CELL' = account_check_and_set(ACCOUNT_DATA_CELL).cell
            /\ pending' = Add(Suspended("register", from, 1))
            /\ ret' = Suspend("register", "entry", from, 0, NoResponse,
                              Sent(RegisterSteps[1], 0, from))
    /\ UNCHANGED <<CONTRACT_REGISTRATION_STATE, CONTRACT_REGISTRATION_TX_HASH,
                   NONCE_CELL, resetInFlight>>

\* register_account, resumed with the result of the remote call it awaits, up to
\* the next .await or the return (account.rs 56-101)
register_resume(c, result) ==
    LET r == register_step(c.step, result, NONCE_CELL)
        is_registered == c.step = 1 /\ r.out.ok /\ r.out.val = 1
        failed == IF ~r.out.ok THEN r.out ELSE Err("is already registered")
    IN  /\ Ready /\ UNCHANGED outside
        /\ c.op = "register" /\ BagIn(c, pending)
        /\ result \in Responses(RegisterSteps[c.step])
        /\ NONCE_CELL' = r.cell
        /\ IF ~r.out.ok \/ is_registered
           THEN /\ ACCOUNT_DATA_CELL' = reset(ACCOUNT_DATA_CELL)
                /\ pending' = Remove(c)
                /\ ret' = Return("register", "resume", c.arg, c.step, result, failed)
                /\ resetInFlight' = AfterReturn(c)
           ELSE IF c.step < Len(RegisterSteps)
           THEN /\ pending' = Remove(c) (+) SetToBag({Suspended("register", c.arg, c.step + 1)})
                /\ ret' = Suspend("register", "resume", c.arg, c.step, result,
                                  Sent(RegisterSteps[c.step + 1], 0, c.arg))
                /\ UNCHANGED <<ACCOUNT_DATA_CELL, resetInFlight>>
           ELSE /\ ACCOUNT_DATA_CELL' = register_final(c.arg)
                /\ pending' = Remove(c)
                /\ ret' = Return("register", "resume", c.arg, c.step, result,
                                 Ok(0, NoReceipt))
                /\ resetInFlight' = AfterReturn(c)
        /\ UNCHANGED <<CONTRACT_REGISTRATION_STATE, CONTRACT_REGISTRATION_TX_HASH>>

\* fault: a reset that also forgets the pending deployment
reset_self_account_clears_deployment ==
    /\ Ready /\ UNCHANGED environment
    /\ ACCOUNT_DATA_CELL' = reset(ACCOUNT_DATA_CELL)
    /\ StableCell_set(Unregistered)
    /\ CONTRACT_REGISTRATION_TX_HASH' = H256_zero
    /\ ret' = Return("reset", "entry", 0, 0, NoResponse, Ok(0, NoReceipt))
    /\ resetInFlight' = (resetInFlight \/ InFlight("register") # {})
    /\ UNCHANGED <<NONCE_CELL, pending>>

\* reset_self_account: Account::reset (account.rs 104-111)
reset_self_account ==
    /\ Ready /\ UNCHANGED outside
    /\ ACCOUNT_DATA_CELL' = reset(ACCOUNT_DATA_CELL)
    /\ ret' = Return("reset", "entry", 0, 0, NoResponse, Ok(0, NoReceipt))
    /\ resetInFlight' = (resetInFlight \/ InFlight("register") # {})
    /\ UNCHANGED <<CONTRACT_REGISTRATION_STATE, CONTRACT_REGISTRATION_TX_HASH,
                   NONCE_CELL, pending>>

\* init_contract, from its entry to the .await on create_contract (contract.rs 57-82)
init_contract ==
    LET cas == contract_check_and_set(CONTRACT_REGISTRATION_STATE)
        data == contract_data(BUILD_SMART_CONTRACT_AGGREGATOR_SINGLE_HEX_CODE)
        tx_params == get_tx_params(ACCOUNT_DATA_CELL, NONCE_CELL, U256_zero)
    IN  /\ Ready /\ UNCHANGED environment
        /\ IF cas.rejected
           THEN /\ ret' = Return("deploy", "entry", 0, 0, NoResponse,
                                 Err("ContractAlreadyRegistered"))
                /\ UNCHANGED <<status_cell, NONCE_CELL, pending>>
           ELSE IF ~data.ok
           THEN \* the `?` on the payload returns after the check-and-set has written
                /\ StableCell_set(cas.cell)
                /\ ret' = Return("deploy", "entry", 0, 0, NoResponse, Err(data.err))
                /\ UNCHANGED <<NONCE_CELL, pending>>
           ELSE IF ~tx_params.ok
           THEN \* create_contract fails before its call: the Err arm rolls back
                /\ StableCell_set(Unregistered)
                /\ NONCE_CELL' = tx_params.cell
                /\ ret' = Return("deploy", "entry", 0, 0, NoResponse, Err(tx_params.err))
                /\ UNCHANGED pending
           ELSE /\ CanSuspend
                /\ tx_params.cell \in Nonce
                /\ StableCell_set(cas.cell)
                /\ NONCE_CELL' = tx_params.cell
                /\ pending' = Add(Suspended("deploy", 0, 1))
                /\ ret' = Suspend("deploy", "entry", 0, 0, NoResponse,
                                  Submitted("create_contract", tx_params, NoAddr))
        /\ UNCHANGED <<ACCOUNT_DATA_CELL, CONTRACT_REGISTRATION_TX_HASH, resetInFlight>>

\* fault: the Err arm of create_contract does not roll the status back
init_contract_resume_without_rollback(c, result) ==
    LET r == process_call_result(result, NONCE_CELL)
    IN  /\ Ready /\ UNCHANGED environment
        /\ c.op = "deploy" /\ BagIn(c, pending)
        /\ result \in Responses("create_contract")
        /\ NONCE_CELL' = r.cell
        /\ IF r.out.ok
           THEN /\ CONTRACT_REGISTRATION_TX_HASH' = r.out.val
                /\ UNCHANGED status_cell
           ELSE UNCHANGED <<status_cell, CONTRACT_REGISTRATION_TX_HASH>>
        /\ pending' = Remove(c)
        /\ ret' = Return("deploy", "resume", c.arg, c.step, result, r.out)
        /\ UNCHANGED <<ACCOUNT_DATA_CELL, resetInFlight>>

\* init_contract, resumed with the result of create_contract (contract.rs 82-102)
init_contract_resume(c, result) ==
    LET r == process_call_result(result, NONCE_CELL)
    IN  /\ Ready /\ UNCHANGED environment
        /\ c.op = "deploy" /\ BagIn(c, pending)
        /\ result \in Responses("create_contract")
        /\ NONCE_CELL' = r.cell
        /\ IF r.out.ok
           THEN /\ CONTRACT_REGISTRATION_TX_HASH' = r.out.val
                /\ UNCHANGED status_cell
           ELSE /\ StableCell_set(Unregistered)
                /\ UNCHANGED CONTRACT_REGISTRATION_TX_HASH
        /\ pending' = Remove(c)
        /\ ret' = Return("deploy", "resume", c.arg, c.step, result, r.out)
        /\ UNCHANGED <<ACCOUNT_DATA_CELL, resetInFlight>>

\* confirm_contract_address, from its entry to the .await on the receipt
\* (contract.rs 105-114)
confirm_contract_address ==
    /\ Ready /\ UNCHANGED outside
    /\ IF nothing_pending(CONTRACT_REGISTRATION_TX_HASH)
       THEN /\ ret' = Return("confirm", "entry", CONTRACT_REGISTRATION_TX_HASH, 0, NoResponse,
                             Err("ContractNotRegistered"))
            /\ UNCHANGED pending
       ELSE /\ CanSuspend
            /\ pending' = Add(Suspended("confirm", CONTRACT_REGISTRATION_TX_HASH, 1))
            /\ ret' = Suspend("confirm", "entry", CONTRACT_REGISTRATION_TX_HASH, 0, NoResponse,
                              Sent("eth_get_transaction_receipt", 0, NoAddr))
    /\ UNCHANGED <<ACCOUNT_DATA_CELL, CONTRACT_REGISTRATION_STATE,
                   CONTRACT_REGISTRATION_TX_HASH, NONCE_CELL, resetInFlight>>

\* confirm_contract_address, resumed with the result of the receipt call
\* (contract.rs 114-142)
confirm_resume(c, result) ==
    LET r == process_call_result(result, NONCE_CELL)
        addr == addr_opt(r.out)
    IN  /\ Ready /\ UNCHANGED environment
        /\ c.op = "confirm" /\ BagIn(c, pending)
        /\ result \in Responses("eth_get_transaction_receipt")
        /\ NONCE_CELL' = r.cell
        /\ pending' = Remove(c)
        /\ IF addr # NoAddr
           THEN /\ StableCell_set(Registered(addr))
                /\ CONTRACT_REGISTRATION_TX_HASH' = H256_zero
                /\ ret' = Return("confirm", "resume", c.arg, c.step, result,
                                 Ok(addr, NoReceipt))
           ELSE /\ StableCell_set(Unregistered)
                /\ UNCHANGED CONTRACT_REGISTRATION_TX_HASH
                /\ ret' = Return("confirm", "resume", c.arg, c.step, result,
                                 Err("evm canister: tx failed."))
        /\ UNCHANGED <<ACCOUNT_DATA_CELL, resetInFlight>>

\* add_pair / update_answers: get_contract, then call_contract_func up to the
\* .await inside transact (contract.rs 146-248, evm_canister.rs 116-127)
call_contract_func(func) ==
    LET c == get_contract(CONTRACT_REGISTRATION_STATE)
        tx_params == get_tx_params(ACCOUNT_DATA_CELL, NONCE_CELL, U256_zero)
    IN  /\ Ready /\ UNCHANGED outside
        /\ IF ~c.ok
           THEN /\ ret' = Return(func, "entry", 0, 0, NoResponse, c)
                /\ UNCHANGED <<NONCE_CELL, pending>>
           ELSE IF ~tx_params.ok
           THEN /\ NONCE_CELL' = tx_params.cell
                /\ ret' = Return(func, "entry", 0, 0, NoResponse, Err(tx_params.err))
                /\ UNCHANGED pending
           ELSE /\ CanSuspend
                /\ tx_params.cell \in Nonce
                /\ NONCE_CELL' = tx_params.cell
                /\ pending' = Add(Suspended("transact", 0, 1))
                /\ ret' = Suspend(func, "entry", 0, 0, NoResponse,
                                  Submitted("call_message", tx_params, c.val))
        /\ UNCHANGED <<ACCOUNT_DATA_CELL, CONTRACT_REGISTRATION_STATE,
                       CONTRACT_REGISTRATION_TX_HASH, resetInFlight>>

add_pair == call_contract_func("add_pair")

update_answers == call_contract_func("update_answers")

\* transact, resumed with the result of call_message (evm_canister.rs 120-127):
\* add_pair / update_answers return what it returns
transact_resume(c, result) ==
    LET r == process_call_result(result, NONCE_CELL)
    IN  /\ Ready /\ UNCHANGED outside
        /\ c.op = "transact" /\ BagIn(c, pending)
        /\ result \in Responses("call_message")
        /\ NONCE_CELL' = r.cell
        /\ pending' = Remove(c)
        /\ ret' = Return("transact", "resume", c.arg, c.step, result, r.out)
        /\ UNCHANGED <<ACCOUNT_DATA_CELL, CONTRACT_REGISTRATION_STATE,
                       CONTRACT_REGISTRATION_TX_HASH, resetInFlight>>

Next ==
    \/ \E from \in Addr : register_account(from)
    \/ \E c \in InFlight("register") :
          \E result \in Responses(RegisterSteps[c.step]) : register_resume(c, result)
    \/ reset_self_account
    \/ init_contract
    \/ \E c \in InFlight("deploy") :
          \E result \in Responses("create_contract") : init_contract_resume(c, result)
    \/ confirm_contract_address
    \/ \E c \in InFlight("confirm") :
          \E result \in Responses("eth_get_transaction_receipt") : confirm_resume(c, result)
    \/ add_pair
    \/ update_answers
    \/ \E c \in InFlight("transact") :
          \E result \in Responses("call_message") : transact_resume(c, result)
    \/ Forget

Spec == Init /\ [][Next]_vars

(* ----------------------- every remote call resolves -------------------- *)
\* The calls a register_account and an init_contract are suspended on
SuspendedCalls ==
    {Suspended("register", from, step) : from \in Addr, step \in 1..Len(RegisterSteps)}
        \cup {Suspended("deploy", 0, 1)}

\* the remote call c is suspended on resolves, and the canister resumes c
Resolve(c) ==
    CASE c.op = "register" ->
            \E result \in Responses(RegisterSteps[c.step]) : register_resume(c, result)
      [] c.op = "deploy" ->
            \E result \in Responses("create_contract") : init_contract_resume(c, result)

\* A specification in which every remote call of a register_account and of an
\* init_contract eventually resolves: no such call stays suspended for ever
\* (the record of a turn is dropped before the next turn runs)
SpecFair ==
    /\ Init /\ [][Next]_vars
    /\ WF_vars(Forget)
    /\ \A c \in SuspendedCalls : SF_vars(Resolve(c))

(* ------------------------- any text in the build ----------------------- *)
\* The canister as the build script makes it of any text it is handed, the texts
\* that fail the test of build_data.rs included
InitBuild ==
    /\ ACCOUNT_DATA_CELL = Unregistered
    /\ CONTRACT_REGISTRATION_STATE = Unregistered
    /\ CONTRACT_REGISTRATION_TX_HASH = H256_zero
    /\ NONCE_CELL = U256_one
    /\ BUILD_SMART_CONTRACT_AGGREGATOR_SINGLE_HEX_CODE \in aggregator_single_contract_hex
    /\ evmc_nonce = U256_one
    /\ pending = EmptyBag
    /\ ret = NoTurn
    /\ resetInFlight = FALSE
    /\ failedAt = 0
    /\ scenarioA = 0
    /\ status_bytes = to_bytes(Unregistered)
    /\ status_set = Unregistered
    /\ restarted = FALSE
    /\ owner = InitData.owner
    /\ evmc_principal = InitData.evmc_principal
    /\ pairs = {}
    /\ prices = {}
    /\ timers = 0

SpecBuild == InitBuild /\ [][Next]_vars

(* --------------------- the gateway called directly --------------------- *)
\* The public functions of EvmCanisterImpl that no endpoint of canister.rs
\* reaches: reset, and the five remote calls below.  A caller of them is a module
\* of the crate (evm_canister is private to it).
GatewayCalls ==
    [send_raw_transaction |-> "send_raw_transaction",
     get_contract_code |-> "eth_get_code",
     get_balance |-> "account_basic",
     get_transaction_by_hash |-> "eth_get_transaction_by_hash",
     deposit |-> "deposit_tokens"]

\* EvmCanisterImpl::reset: the nonce cell is set to one
EvmCanisterImpl_reset ==
    /\ Ready /\ UNCHANGED outside
    /\ NONCE_CELL' = U256_one
    /\ ret' = Return("EvmCanisterImpl_reset", "entry", 0, 0, NoResponse, Ok(0, NoReceipt))
    /\ UNCHANGED <<ACCOUNT_DATA_CELL, CONTRACT_REGISTRATION_STATE,
                   CONTRACT_REGISTRATION_TX_HASH, pending, resetInFlight>>

\* one of the five, from its entry to the .await on its canister_call!
gateway_call(op) ==
    /\ Ready /\ UNCHANGED outside
    /\ CanSuspend
    /\ pending' = Add(Suspended(op, 0, 1))
    /\ ret' = Suspend(op, "entry", 0, 0, NoResponse, Sent(GatewayCalls[op], 0, NoAddr))
    /\ UNCHANGED <<cells, resetInFlight>>

\* the result of the remote call of op
gateway_result(op, result, cell) ==
    CASE op = "send_raw_transaction" -> send_raw_transaction(result, cell)
      [] op = "get_contract_code" -> get_contract_code(result, cell)
      [] op = "get_balance" -> get_balance(result, cell)
      [] op = "get_transaction_by_hash" -> get_transaction_by_hash(result, cell)
      [] op = "deposit" -> deposit(result, cell)

\* one of the five, resumed with the result of its remote call
gateway_resume(c, result) ==
    LET r == gateway_result(c.op, result, NONCE_CELL)
    IN  /\ Ready /\ UNCHANGED outside
        /\ c.op \in DOMAIN GatewayCalls /\ BagIn(c, pending)
        /\ result \in Responses(GatewayCalls[c.op])
        /\ NONCE_CELL' = r.cell
        /\ pending' = Remove(c)
        /\ ret' = Return(c.op, "resume", c.arg, c.step, result, r.out)
        /\ UNCHANGED <<ACCOUNT_DATA_CELL, CONTRACT_REGISTRATION_STATE,
                       CONTRACT_REGISTRATION_TX_HASH, resetInFlight>>

NextGateway ==
    \/ Next
    \/ EvmCanisterImpl_reset
    \/ \E op \in DOMAIN GatewayCalls : gateway_call(op)
    \/ \E op \in DOMAIN GatewayCalls : \E c \in InFlight(op) :
          \E result \in Responses(GatewayCalls[op]) : gateway_resume(c, result)

SpecGateway == Init /\ [][NextGateway]_vars

(* ------------------------------- queries ------------------------------ *)
\* get_self_address_in_evmc: Account::get_account on the registration status
\* (canister.rs 207-210)
get_self_address_in_evmc ==
    /\ Ready /\ UNCHANGED outside
    /\ ret' = Return("get_self_address_in_evmc", "entry", 0, 0, NoResponse,
                     get_account(ACCOUNT_DATA_CELL))
    /\ UNCHANGED <<cells, pending, resetInFlight>>

\* get_aggregator_contract_address: ContractService::get_contract on the
\* deployment status (canister.rs 229-232)
get_aggregator_contract_address ==
    /\ Ready /\ UNCHANGED outside
    /\ ret' = Return("get_aggregator_contract_address", "entry", 0, 0, NoResponse,
                     get_contract(CONTRACT_REGISTRATION_STATE))
    /\ UNCHANGED <<cells, pending, resetInFlight>>

\* A specification with the queries: they can be called between any two turns of
\* the update calls
NextQuery ==
    \/ Next
    \/ get_self_address_in_evmc
    \/ get_aggregator_contract_address

SpecQuery == Init /\ [][NextQuery]_vars

(* -------------------- the EVM canister as nonce keeper ------------------ *)
\* The remote host of a second specification: it accepts a submission
\* (create_contract, call_message) only when the nonce stamped in it is the one it
\* expects, and then expects the next one; otherwise it answers
\* InvalidNonce{expected}.  A submission can also fail in transit (a reject) or
\* with another error of the EVM canister, and the host's nonce stays.
Submissions == InFlight("deploy") \cup InFlight("transact")

evmc_responses(stamped, expected) ==
    {Reject, EvmErrorOther} \cup
    IF stamped = expected
    THEN {Reply(h) : h \in H256}
    ELSE {InvalidNonce(expected)}

evmc_next_nonce(response, expected) ==
    IF response.kind = "ok" THEN expected + 1 ELSE expected

\* the submissions the host has not handled yet
Undelivered == {c \in Submissions : c.got = NoResponse}

\* The host handles the submission c, stamped with the nonce of the turn that has
\* just sent it; its response stays with the suspended call until the canister
\* resumes it.  Calls reach the host in the order they are sent and nothing but
\* its responses shows when it handles them: it handles each before the
\* canister's next turn.
evmc_deliver(c, response) ==
    /\ c \in Undelivered
    /\ ret.pc = "await" /\ ret.sent.call \in {"create_contract", "call_message"}
    /\ response \in evmc_responses(ret.sent.nonce, evmc_nonce)
    /\ evmc_nonce' = evmc_next_nonce(response, evmc_nonce)
    /\ pending' = Remove(c) (+) SetToBag({[c EXCEPT !.got = response]})
    /\ UNCHANGED <<cells, BUILD_SMART_CONTRACT_AGGREGATOR_SINGLE_HEX_CODE, ret,
                   resetInFlight, notes, storage, shell>>

ForgetHost == Undelivered = {} /\ Forget

\* what the other remote calls resolve to with this host: an InvalidNonce carries
\* the nonce the host expects
HostResponses(call) ==
    {r \in Responses(call) : r.kind = "invalid_nonce" => r.expected = evmc_nonce}

NextHost ==
    \/ \E from \in Addr : register_account(from)
    \/ \E c \in InFlight("register") :
          \E result \in HostResponses(RegisterSteps[c.step]) : register_resume(c, result)
    \/ reset_self_account
    \/ init_contract
    \/ \E c \in Submissions : \E response \in Failures \cup {Reply(h) : h \in H256} :
          evmc_deliver(c, response)
    \/ \E c \in InFlight("deploy") : c.got # NoResponse /\ init_contract_resume(c, c.got)
    \/ confirm_contract_address
    \/ \E c \in InFlight("confirm") :
          \E result \in HostResponses("eth_get_transaction_receipt") :
             confirm_resume(c, result)
    \/ add_pair
    \/ update_answers
    \/ \E c \in InFlight("transact") : c.got # NoResponse /\ transact_resume(c, c.got)
    \/ ForgetHost

SpecHost == Init /\ [][NextHost]_vars

(* ----------------------- calls made one after another ------------------ *)
\* A third specification: every call is made when the one before it has returned
\* (nothing is in flight when an endpoint is entered), and a note is taken of
\* each turn when its record is dropped.
NothingInFlight == pending = EmptyBag

\* the step at which the last register_account to return failed; 0 once one
\* has succeeded
failed_step(note, turn) ==
    IF turn.op = "register" /\ turn.turn = "resume" /\ turn.pc = "done"
    THEN IF turn.res # "none" THEN turn.step ELSE 0
    ELSE note

\* 1: the last turn of the deployment machine is a deploy() that returned a hash
\* (or the entry of the confirm() that follows it); 2: the confirm() that
\* followed it found no receipt; 3: the deploy() entered next has submitted its
\* transaction; 0: anything else has run
scenario_phase(note, turn) ==
    IF turn.op = "deploy" /\ turn.turn = "resume" /\ turn.res = "none"
    THEN 1
    ELSE IF note = 1 /\ turn.op = "confirm" /\ turn.turn = "entry" /\ turn.pc = "await"
    THEN 1
    ELSE IF note = 1 /\ turn.op = "confirm" /\ turn.turn = "resume"
               /\ turn.got.kind = "ok" /\ ~turn.got.receipt.some
    THEN 2
    ELSE IF note = 2 /\ turn.op = "deploy" /\ turn.turn = "entry" /\ turn.pc = "await"
    THEN 3
    ELSE 0

ForgetSeq ==
    /\ ret # NoTurn
    /\ ret' = NoTurn
    /\ failedAt' = failed_step(failedAt, ret)
    /\ scenarioA' = scenario_phase(scenarioA, ret)
    /\ UNCHANGED <<cells, BUILD_SMART_CONTRACT_AGGREGATOR_SINGLE_HEX_CODE, evmc_nonce,
                   pending, resetInFlight, storage, shell>>

NextSeq ==
    \/ \E from \in Addr : NothingInFlight /\ register_account(from)
    \/ \E c \in InFlight("register") :
          \E result \in Responses(RegisterSteps[c.step]) : register_resume(c, result)
    \/ NothingInFlight /\ reset_self_account
    \/ NothingInFlight /\ init_contract
    \/ \E c \in InFlight("deploy") :
          \E result \in Responses("create_contract") : init_contract_resume(c, result)
    \/ NothingInFlight /\ confirm_contract_address
    \/ \E c \in InFlight("confirm") :
          \E result \in Responses("eth_get_transaction_receipt") : confirm_resume(c, result)
    \/ NothingInFlight /\ add_pair
    \/ NothingInFlight /\ update_answers
    \/ \E c \in InFlight("transact") :
          \E result \in Responses("call_message") : transact_resume(c, result)
    \/ ForgetSeq

SpecSeq == Init /\ [][NextSeq]_vars

(* ---------------- the canister's endpoints (canister.rs) --------------- *)
\* OracleCanister::check_owner
check_owner(own, principal) ==
    IF own = principal \/ own = Principal_anonymous
    THEN Ok(0, NoReceipt)
    ELSE Err("NotAuthorized")

\* the `?` on check_owner: the endpoint returns Err(NotAuthorized)
NotAuthorized(endpoint) ==
    /\ Ready /\ UNCHANGED outside
    /\ ret' = Return(endpoint, "entry", 0, 0, NoResponse, Err("NotAuthorized"))
    /\ UNCHANGED <<cells, pending, resetInFlight>>

\* an endpoint that returns out, having written (or not) the shell's state only
Returns(endpoint, out) ==
    /\ Ready
    /\ ret' = Return(endpoint, "entry", 0, 0, NoResponse, out)
    /\ UNCHANGED <<cells, pending, resetInFlight, storage, notes, evmc_nonce,
                   BUILD_SMART_CONTRACT_AGGREGATOR_SINGLE_HEX_CODE>>

\* PairPrice::add_pair and PairPrice::del_pair: the result, and the pairs and
\* the priced pairs after it; a new pair has no price, and deleting a pair
\* discards its prices
PairPrice_add_pair(ps, priced, pair) ==
    IF pair \in ps
    THEN [out |-> Err("PairExist"), pairs |-> ps, prices |-> priced]
    ELSE [out |-> Ok(0, NoReceipt), pairs |-> ps \cup {pair}, prices |-> priced]
PairPrice_del_pair(ps, priced, pair) ==
    IF pair \notin ps
    THEN [out |-> Err("PairNotExist"), pairs |-> ps, prices |-> priced]
    ELSE [out |-> Ok(0, NoReceipt), pairs |-> ps \ {pair}, prices |-> priced \ {pair}]

\* PairPrice::get_latest_price: None for a pair no price was stored for
PairPrice_get_latest_price(priced, pair) ==
    IF pair \in priced THEN Ok(0, NoReceipt) ELSE Err("None")

\* what the synchronisation with a price source stores when it succeeds: a
\* price of the pair asked for (NoPair: the empty list of Coingecko), when the
\* pair still exists
NoPair == 0
PairPrice_update_price(ps, priced, pair, out) ==
    IF out.ok /\ pair # NoPair /\ pair \in ps THEN priced \cup {pair} ELSE priced

OracleCanister_set_owner(principal, new) ==
    IF ~check_owner(owner, principal).ok
    THEN NotAuthorized("set_owner")
    ELSE /\ Returns("set_owner", Ok(0, NoReceipt))
         /\ owner' = new
         /\ UNCHANGED <<evmc_principal, pairs, prices, timers>>

OracleCanister_set_evmc_principal(principal, evmc) ==
    IF ~check_owner(owner, principal).ok
    THEN NotAuthorized("set_evmc_principal")
    ELSE /\ Returns("set_evmc_principal", Ok(0, NoReceipt))
         /\ evmc_principal' = evmc
         /\ UNCHANGED <<owner, pairs, prices, timers>>

OracleCanister_add_pair(principal, pair) ==
    IF ~check_owner(owner, principal).ok
    THEN NotAuthorized("canister_add_pair")
    ELSE /\ Returns("canister_add_pair", PairPrice_add_pair(pairs, prices, pair).out)
         /\ pairs' = PairPrice_add_pair(pairs, prices, pair).pairs
         /\ prices' = PairPrice_add_pair(pairs, prices, pair).prices
         /\ UNCHANGED <<owner, evmc_principal, timers>>

OracleCanister_remove_pair(principal, pair) ==
    IF ~check_owner(owner, principal).ok
    THEN NotAuthorized("remove_pair")
    ELSE /\ Returns("remove_pair", PairPrice_del_pair(pairs, prices, pair).out)
         /\ pairs' = PairPrice_del_pair(pairs, prices, pair).pairs
         /\ prices' = PairPrice_del_pair(pairs, prices, pair).prices
         /\ UNCHANGED <<owner, evmc_principal, timers>>

\* update_price, up to the .await on the price source: the pairs asked for must
\* all exist; Coinbase is asked for the first of them, and indexing an empty
\* list traps
OracleCanister_update_price(principal, pair_keys, api) ==
    LET asked == IF pair_keys = <<>> THEN NoPair ELSE pair_keys[1] IN
    IF ~check_owner(owner, principal).ok
    THEN NotAuthorized("update_price")
    ELSE IF \E i \in 1..Len(pair_keys) : pair_keys[i] \notin pairs
    THEN Returns("update_price", Err("PairNotExist")) /\ UNCHANGED shell
    ELSE IF api = "Coinbase" /\ pair_keys = <<>>
    THEN Returns("update_price", Err("trap")) /\ UNCHANGED shell
    ELSE /\ Ready /\ UNCHANGED outside
         /\ CanSuspend
         /\ pending' = Add(Suspended("update_price", asked, 1))
         /\ ret' = Suspend("update_price", "entry", asked, 0, NoResponse,
                           Sent("http_request", 0, NoAddr))
         /\ UNCHANGED <<cells, resetInFlight>>

\* update_price, resumed with what the price source's synchronisation returns:
\* when it succeeds it has stored a price of the pair asked for
update_price_resume(c, result) ==
    /\ Ready
    /\ c.op = "update_price" /\ BagIn(c, pending)
    /\ pending' = Remove(c)
    /\ prices' = PairPrice_update_price(pairs, prices, c.arg, process_call(result))
    /\ ret' = Return("update_price", "resume", c.arg, c.step, result, process_call(result))
    /\ UNCHANGED <<cells, resetInFlight, storage, notes, evmc_nonce,
                   BUILD_SMART_CONTRACT_AGGREGATOR_SINGLE_HEX_CODE>>
    /\ UNCHANGED <<owner, evmc_principal, pairs, timers>>

\* start_feed_price_timer: set_timer_interval, and nothing before it
OracleCanister_start_feed_price_timer(principal) ==
    /\ timers < MaxTimers
    /\ Returns("start_feed_price_timer", Ok(0, NoReceipt))
    /\ timers' = timers + 1
    /\ UNCHANGED <<owner, evmc_principal, pairs, prices>>

\* a timer started by start_feed_price_timer fires: its callback reads the
\* latest price of every pair, and panics on a pair that has none; then it
\* spawns ContractService::update_answers, which runs to its first .await
feed_price_timer ==
    /\ timers > 0
    /\ IF \E pair \in pairs : ~PairPrice_get_latest_price(prices, pair).ok
       THEN Returns("feed_price_timer", Err("trap")) /\ UNCHANGED shell
       ELSE update_answers

OracleCanister_register_self_in_evmc(principal, from) ==
    IF ~check_owner(owner, principal).ok
    THEN NotAuthorized("register_self_in_evmc")
    ELSE register_account(from)

OracleCanister_reset_self_account(principal) ==
    IF ~check_owner(owner, principal).ok
    THEN NotAuthorized("reset_self_account")
    ELSE reset_self_account

OracleCanister_deploy_aggregator_contract(principal) ==
    IF ~check_owner(owner, principal).ok
    THEN NotAuthorized("deploy_aggregator_contract")
    ELSE init_contract

OracleCanister_confirm_aggregator_contract(principal) ==
    IF ~check_owner(owner, principal).ok
    THEN NotAuthorized("confirm_aggregator_contract")
    ELSE confirm_contract_address

OracleCanister_add_pair_in_aggregator(principal) ==
    IF ~check_owner(owner, principal).ok
    THEN NotAuthorized("add_pair_in_aggregator")
    ELSE add_pair

OracleCanister_update_answers(principal) ==
    IF ~check_owner(owner, principal).ok
    THEN NotAuthorized("canister_update_answers")
    ELSE update_answers

\* the lists of pairs update_price is called with, and the price sources
PairLists == {<<>>} \cup {<<pair>> : pair \in Pairs}
ApiType == {"Coinbase", "Coingecko"}

\* A specification of the canister with its shell: the endpoints are called by
\* any principal, each when the call before it has returned; a pair is removed
\* and a timer fires between any two turns, whatever is suspended
NextShell ==
    \/ \E principal \in Principals, new \in Principals :
          NothingInFlight /\ OracleCanister_set_owner(principal, new)
    \/ \E principal \in Principals, evmc \in Principals :
          NothingInFlight /\ OracleCanister_set_evmc_principal(principal, evmc)
    \/ \E principal \in Principals, pair \in Pairs :
          NothingInFlight /\ OracleCanister_add_pair(principal, pair)
    \/ \E principal \in Principals, pair \in Pairs :
          OracleCanister_remove_pair(principal, pair)
    \/ \E principal \in Principals, pair_keys \in PairLists, api \in ApiType :
          NothingInFlight /\ OracleCanister_update_price(principal, pair_keys, api)
    \/ \E c \in InFlight("update_price") : \E result \in {Reject, Reply(0)} :
          update_price_resume(c, result)
    \/ \E principal \in Principals :
          NothingInFlight /\ OracleCanister_start_feed_price_timer(principal)
    \/ feed_price_timer
    \/ \E principal \in Principals, from \in Addr :
          NothingInFlight /\ OracleCanister_register_self_in_evmc(principal, from)
    \/ \E c \in InFlight("register") :
          \E result \in Responses(RegisterSteps[c.step]) : register_resume(c, result)
    \/ \E principal \in Principals :
          NothingInFlight /\ OracleCanister_reset_self_account(principal)
    \/ \E principal \in Principals :
          NothingInFlight /\ OracleCanister_deploy_aggregator_contract(principal)
    \/ \E c \in InFlight("deploy") :
          \E result \in Responses("create_contract") : init_contract_resume(c, result)
    \/ \E principal \in Principals :
          NothingInFlight /\ OracleCanister_confirm_aggregator_contract(principal)
    \/ \E c \in InFlight("confirm") :
          \E result \in Responses("eth_get_transaction_receipt") : confirm_resume(c, result)
    \/ \E principal \in Principals :
          NothingInFlight /\ OracleCanister_add_pair_in_aggregator(principal)
    \/ \E principal \in Principals :
          NothingInFlight /\ OracleCanister_update_answers(principal)
    \/ \E c \in InFlight("transact") :
          \E result \in Responses("call_message") : transact_resume(c, result)
    \/ Forget

SpecShell == Init /\ [][NextShell]_vars

(* ------------------ the deployment status across restarts -------------- *)
\* A specification of the cell alone: it is set to a status, and the canister is
\* restarted: the cell is attached to its stable memory again and its value is
\* what the bytes there decode to.
ContractStatus_set(st) ==
    /\ StableCell_set(st)
    /\ UNCHANGED <<ACCOUNT_DATA_CELL, CONTRACT_REGISTRATION_TX_HASH, NONCE_CELL,
                   pending, ret, resetInFlight, environment>>

StableCell_new ==
    /\ CONTRACT_REGISTRATION_STATE' = from_bytes(status_bytes)
    /\ restarted' = TRUE
    /\ UNCHANGED <<status_bytes, status_set>>
    /\ UNCHANGED <<ACCOUNT_DATA_CELL, CONTRACT_REGISTRATION_TX_HASH, NONCE_CELL,
                   pending, ret, resetInFlight, environment>>

NextStorable ==
    \/ \E st \in ContractStatus : ContractStatus_set(st)
    \/ StableCell_new

SpecStorable == Init /\ [][NextStorable]_vars

(* ------------------------------- claims ------------------------------- *)
Returned(o, t) == ret.op = o /\ ret.turn = t /\ ret.pc = "done"

\* C1 (as stated): at most one register_account is in flight (past its entry
\* check-and-set, not yet returned) at any time, whatever register() and reset()
\* calls are made.
C1_AtMostOneRegisterInFlight == NumInFlight("register") <= 1

\* C1 (amended): at most one register_account is in flight, but in a period that
\* begins when reset() runs while a register_account is suspended and ends when
\* none is in flight any more.
C1_AtMostOneRegisterInFlightWithoutReset ==
    ~resetInFlight => NumInFlight("register") <= 1

\* a register() was turned away at its entry while another one is suspended
C1_Witness ==
    /\ Returned("register", "entry")
    /\ NumInFlight("register") = 1
    /\ ~resetInFlight

\* C2: at most one init_contract is in flight at any time: none passes the entry
\* check-and-set while another is suspended on create_contract.
C2_AtMostOneDeployInFlight == NumInFlight("deploy") <= 1

\* C3: when a register_account returns a failure after one of its four remote
\* steps (the step failed, or the registered-check said registered), the
\* registration status is Unregistered and the entry check of a next register()
\* passes.
C3_RegisterFailureRollsBack ==
    (Returned("register", "resume") /\ ret.res # "none") =>
        /\ ACCOUNT_DATA_CELL = Unregistered
        /\ ~account_check_and_set(ACCOUNT_DATA_CELL).rejected

\* a register() has failed at its third remote step with a transport failure
C3_Witness ==
    /\ Returned("register", "resume")
    /\ ret.step = 3
    /\ ret.got = Reject

\* C4: register() entered while the registration status is InProgress or
\* Registered fails, sends no remote call, and leaves the nonce, both statuses
\* and the pending hash as they were.
C4_RegisterRejectedChangesNothing ==
    [][(/\ ret'.op = "register" /\ ret'.turn = "entry"
        /\ ACCOUNT_DATA_CELL.tag \in {"RegistrationInProgress", "Registered"})
       => /\ ret'.pc = "done"
          /\ ret'.res = "Account already registered"
          /\ ret'.sent = NoCall
          /\ UNCHANGED <<NONCE_CELL, ACCOUNT_DATA_CELL, CONTRACT_REGISTRATION_STATE,
                         CONTRACT_REGISTRATION_TX_HASH, pending>>]_vars

\* a register() has just been turned away while the status is InProgress
C4_Witness ==
    /\ Returned("register", "entry")
    /\ ret.res = "Account already registered"
    /\ ACCOUNT_DATA_CELL = RegistrationInProgress

\* C5: deploy() entered while the deployment status is InProgress or Registered
\* fails with ContractAlreadyRegistered, sends no remote call, takes no nonce and
\* leaves the deployment status and the pending hash as they were.
C5_DeployRejectedChangesNothing ==
    [][(/\ ret'.op = "deploy" /\ ret'.turn = "entry"
        /\ CONTRACT_REGISTRATION_STATE.tag \in {"RegistrationInProgress", "Registered"})
       => /\ ret'.pc = "done"
          /\ ret'.res = "ContractAlreadyRegistered"
          /\ ret'.sent = NoCall
          /\ UNCHANGED <<NONCE_CELL, CONTRACT_REGISTRATION_STATE,
                         CONTRACT_REGISTRATION_TX_HASH, pending>>]_vars

\* a deploy() has just been turned away while the status is InProgress
C5_Witness ==
    /\ Returned("deploy", "entry")
    /\ ret.res = "ContractAlreadyRegistered"
    /\ CONTRACT_REGISTRATION_STATE = RegistrationInProgress

\* C6: when the fourth remote step of register(transaction, signing_key)
\* succeeds (the first three have succeeded before it), register returns Ok and
\* the registration status is Registered(transaction.from).
C6_RegisterSuccessStoresSender ==
    (ret.op = "register" /\ ret.turn = "resume" /\ ret.step = Len(RegisterSteps)
        /\ ret.got.kind = "ok") =>
        /\ ret.pc = "done"
        /\ ret.res = "none"
        /\ ACCOUNT_DATA_CELL = Registered(ret.arg)

\* a register() has got the reply to verify_registration
C6_Witness ==
    /\ ret.op = "register" /\ ret.turn = "resume"
    /\ ret.step = 4
    /\ ret.got = Reply(0)

\* C7: confirm() entered while the pending hash is zero fails, sends no remote
\* call and leaves the deployment status, the pending hash and the nonce as they
\* were.
C7_ConfirmNothingPending ==
    [][(ret'.op = "confirm" /\ ret'.turn = "entry" /\ CONTRACT_REGISTRATION_TX_HASH = H256_zero)
       => /\ ret'.pc = "done"
          /\ ret'.res = "ContractNotRegistered"
          /\ ret'.sent = NoCall
          /\ UNCHANGED <<CONTRACT_REGISTRATION_STATE, CONTRACT_REGISTRATION_TX_HASH,
                         NONCE_CELL, ACCOUNT_DATA_CELL, pending>>]_vars

\* a confirm() has just failed on a zero pending hash, after a deployment was tried
C7_Witness ==
    /\ Returned("confirm", "entry")
    /\ CONTRACT_REGISTRATION_TX_HASH = H256_zero
    /\ CONTRACT_REGISTRATION_STATE = RegistrationInProgress

\* the receipt a confirm() got, when the call succeeded with Some(receipt)
GotReceipt == ret.got.kind = "ok" /\ ret.got.receipt.some

\* C8: when confirm() gets a receipt with status 1 and a contract address a, it
\* returns a, the deployment status is Registered(a) and the pending hash is zero.
C8_ConfirmSuccess ==
    (ret.op = "confirm" /\ ret.turn = "resume" /\ GotReceipt
        /\ ret.got.receipt.status = 1
        /\ ret.got.receipt.contract_address # NoAddr) =>
        /\ ret.pc = "done"
        /\ ret.res = "none"
        /\ ret.val = ret.got.receipt.contract_address
        /\ CONTRACT_REGISTRATION_STATE = Registered(ret.got.receipt.contract_address)
        /\ CONTRACT_REGISTRATION_TX_HASH = H256_zero

\* a confirm() has got a receipt with status 1 and a contract address
C8_Witness ==
    /\ ret.op = "confirm" /\ ret.turn = "resume" /\ GotReceipt
    /\ ret.got.receipt.status = 1
    /\ ret.got.receipt.contract_address \in Addr

\* C9: when confirm() gets a receipt with a failure status, or no receipt, it
\* fails, the deployment status is Unregistered and the pending hash is zero.
C9_ConfirmFailureClearsPending ==
    (ret.op = "confirm" /\ ret.turn = "resume" /\ ret.got.kind = "ok"
        /\ (~ret.got.receipt.some \/ ret.got.receipt.status = 0)) =>
        /\ ret.pc = "done"
        /\ ret.res # "none"
        /\ CONTRACT_REGISTRATION_STATE = Unregistered
        /\ CONTRACT_REGISTRATION_TX_HASH = H256_zero

\* C10: when create_contract succeeds with hash H, deploy() returns H, the
\* pending hash is H and the deployment status is InProgress.
C10_DeploySuccessStoresHash ==
    (ret.op = "deploy" /\ ret.turn = "resume" /\ ret.got.kind = "ok") =>
        /\ ret.pc = "done"
        /\ ret.res = "none"
        /\ ret.val = ret.got.val
        /\ CONTRACT_REGISTRATION_TX_HASH = ret.got.val
        /\ CONTRACT_REGISTRATION_STATE = RegistrationInProgress

\* C11: when the create_contract submission of a deploy() fails, deploy() returns
\* that failure, and at its return the deployment status is Unregistered and the
\* pending hash is zero.
C11_DeployFailureRollsBack ==
    (ret.op = "deploy" /\ ret.turn = "resume" /\ ret.got.kind # "ok") =>
        /\ ret.pc = "done"
        /\ ret.res = process_call_result(ret.got, NONCE_CELL).out.err
        /\ ret.res # "none"
        /\ CONTRACT_REGISTRATION_STATE = Unregistered
        /\ CONTRACT_REGISTRATION_TX_HASH = H256_zero

\* the changes of a status the machines allow
AllowedChange(old, new) ==
    \/ old = Unregistered /\ new = RegistrationInProgress
    \/ old = RegistrationInProgress /\ new.tag = "Registered"
    \/ old = RegistrationInProgress /\ new = Unregistered

\* C12: every change of the deployment status is Unregistered to InProgress,
\* InProgress to Registered(address) or InProgress to Unregistered; it never goes
\* from Unregistered to Registered.
C12_DeploymentStatusChanges ==
    [][CONTRACT_REGISTRATION_STATE' # CONTRACT_REGISTRATION_STATE =>
          AllowedChange(CONTRACT_REGISTRATION_STATE, CONTRACT_REGISTRATION_STATE')]_vars

\* a change of the registration status made in a turn of register(), and the
\* change from Registered to Unregistered made in a turn of something else than
\* reset()
RegisterChange ==
    ret'.op = "register" /\ ACCOUNT_DATA_CELL' # ACCOUNT_DATA_CELL
Unregistering ==
    /\ ACCOUNT_DATA_CELL.tag = "Registered" /\ ACCOUNT_DATA_CELL' = Unregistered
    /\ ret'.op # "reset"

\* C13 (as stated): every change of the registration status made by register() is
\* Unregistered to InProgress, InProgress to Registered(address) or InProgress to
\* Unregistered, and only reset() takes the status from Registered to
\* Unregistered.
C13_RegistrationStatusChanges ==
    [][/\ RegisterChange => AllowedChange(ACCOUNT_DATA_CELL, ACCOUNT_DATA_CELL')
       /\ ~Unregistering]_vars

\* C13 (amended): the same, but in a period that begins when reset() runs while a
\* register_account is suspended and ends when none is in flight any more.
C13_RegistrationStatusChangesWithoutReset ==
    [][~resetInFlight =>
          /\ RegisterChange => AllowedChange(ACCOUNT_DATA_CELL, ACCOUNT_DATA_CELL')
          /\ ~Unregistering]_vars

\* a register() has made the status Registered, with no reset() on its way
C13_Witness ==
    /\ Returned("register", "resume")
    /\ ACCOUNT_DATA_CELL.tag = "Registered"
    /\ ~resetInFlight

\* a turn that takes a nonce: it sends a transaction stamped with it
TakesNonce == ret'.sent.call \in {"create_contract", "call_message"}
\* a turn that corrects the nonce: it resumes with an InvalidNonce error
Reconciles == ret'.got.kind = "invalid_nonce"

\* C14: the nonce counter starts at one; a get_nonce returns the value the counter
\* held and leaves it one higher, and nothing but a correction changes it
\* otherwise, so the nonces taken without a correction in between are 1, 2, 3, ...
C14_NonceIssuedThenIncremented ==
    /\ NONCE_CELL = U256_one
    /\ [][/\ TakesNonce =>
               /\ ret'.sent.nonce = NONCE_CELL
               /\ NONCE_CELL' = NONCE_CELL + U256_one
          /\ (~TakesNonce /\ ~Reconciles) => NONCE_CELL' = NONCE_CELL]_vars

\* the third nonce in a row has been taken
C14_Witness ==
    /\ ret.sent.call = "call_message"
    /\ ret.sent.nonce = 3
    /\ NONCE_CELL = 4

\* C15: when a gateway call has returned InvalidNonce with expected value e, the
\* nonce counter is e, whatever it was, and the next get_nonce returns e.
C15_ReconcileSetsCounter ==
    ret.got.kind = "invalid_nonce" =>
        /\ NONCE_CELL = ret.got.expected
        /\ get_nonce(NONCE_CELL).value = ret.got.expected

\* a submission was rejected with InvalidNonce while a later one is in flight
C15_Witness ==
    /\ ret.op = "transact" /\ ret.turn = "resume"
    /\ ret.got = InvalidNonce(3)
    /\ Submissions # {}

\* C16 (as stated): a correction never moves the counter forward.
C16_ReconcileNeverForward ==
    [][Reconciles => NONCE_CELL' <= NONCE_CELL]_vars

\* C16 (amended): a correction writes the expected value of the error over the
\* counter, be it lower than, equal to or higher than the value it replaces.
C16_ReconcileOverwrites ==
    [][Reconciles => NONCE_CELL' = ret'.got.expected]_vars

\* a correction to the highest nonce
C16_Witness ==
    /\ ret.got = InvalidNonce(MaxNonce)
    /\ NONCE_CELL = MaxNonce

\* C17: with the EVM canister as the keeper of the account's nonce, whenever no
\* submission is in flight the nonce counter is the nonce the EVM canister
\* expects next.
C17_CounterIsExpectedNonce ==
    Submissions = {} => NONCE_CELL = evmc_nonce

\* C18: a deploy() whose create_contract is rejected with InvalidNonce(e) returns
\* a failure, with the deployment status Unregistered and the counter at e, and
\* the transaction of a deploy() or an invoke() entered next is stamped with e.
C18_InvalidNonceSurfaced ==
    (ret.op = "deploy" /\ ret.turn = "resume" /\ ret.got.kind = "invalid_nonce") =>
        /\ ret.pc = "done"
        /\ ret.res # "none"
        /\ CONTRACT_REGISTRATION_STATE = Unregistered
        /\ NONCE_CELL = ret.got.expected
        /\ get_tx_params(ACCOUNT_DATA_CELL, NONCE_CELL, U256_zero).ok =>
               get_tx_params(ACCOUNT_DATA_CELL, NONCE_CELL, U256_zero).nonce = ret.got.expected

\* a deploy() has been rejected with InvalidNonce(2), the account registered
C18_Witness ==
    /\ Returned("deploy", "resume")
    /\ ret.got = InvalidNonce(2)
    /\ ACCOUNT_DATA_CELL.tag = "Registered"

\* the failures of building the create_contract payload
\* a register() or a deploy() that has passed its entry check-and-set has not
\* returned with its status left InProgress, but for a deploy() that returned a
\* transaction hash
C20_NoReturnLeavesInProgress ==
    /\ Returned("register", "resume") => ACCOUNT_DATA_CELL # RegistrationInProgress
    /\ (ret.op = "deploy" /\ ret.pc = "done" /\ ret.res # "ContractAlreadyRegistered"
           /\ CONTRACT_REGISTRATION_STATE = RegistrationInProgress) => ret.res = "none"

\* the register() of a sender, or the deploy(), that is suspended on c has returned
ReturnedFrom(c) == Returned(c.op, "resume") /\ ret.arg = c.arg

\* C20: when every remote call eventually resolves, every register() and every
\* deploy() that has passed its entry check-and-set (and so is suspended on a
\* remote call) eventually returns, and none returns with its status left
\* InProgress, but for a deploy() that returns a transaction hash.
C20_ReturnsAndNeverStuck ==
    /\ []C20_NoReturnLeavesInProgress
    /\ \A c \in SuspendedCalls : BagIn(c, pending) ~> ReturnedFrom(c)

\* a deploy() whose submission failed has returned the failure, with the status
\* rolled back, while a register() is still suspended
C20_Witness ==
    /\ Returned("deploy", "resume") /\ ret.res # "none"
    /\ CONTRACT_REGISTRATION_STATE = Unregistered
    /\ InFlight("register") # {}

\* the register_account suspended on its k-th remote call for the sender a
Awaiting(a, k) == SetToBag({Suspended("register", a, k)})

\* what a turn of register() that got the response to its k-th call (k = 0: its
\* entry, once past the check-and-set) issues next: the call named next, once,
\* when what it got is a success; no call at all when it is a failure
IssuesNext(k, next) ==
    (ret'.op = "register" /\ ret'.step = k /\ (k = 0 => ret'.pc = "await")) =>
        IF k = 0 \/ (ret'.got.kind = "ok" /\ ~(k = 1 /\ ret'.got.val = 1))
        THEN /\ ret'.pc = "await"
             /\ ret'.sent.call = next
             /\ IF k = 0
                THEN pending' = pending (+) Awaiting(ret'.arg, 1)
                ELSE pending' (+) Awaiting(ret'.arg, k) =
                        pending (+) Awaiting(ret'.arg, k + 1)
        ELSE /\ ret'.pc = "done"
             /\ ret'.res # "none"
             /\ ret'.sent = NoCall
             /\ pending' (+) Awaiting(ret'.arg, k) = pending

\* C21: register() issues is_address_registered, mint_evm_tokens,
\* register_ic_agent and verify_registration in this order, each once and only
\* after the one before it succeeded; after the first failure it issues none.
C21_RegisterCallOrder ==
    [][/\ IssuesNext(0, "is_address_registered")
       /\ IssuesNext(1, "mint_evm_tokens")
       /\ IssuesNext(2, "register_ic_agent")
       /\ IssuesNext(3, "verify_registration")
       /\ (ret'.op = "register" /\ ret'.step = 4) =>
              /\ ret'.pc = "done" /\ ret'.sent = NoCall
              /\ pending' (+) Awaiting(ret'.arg, 4) = pending
       /\ ret'.op = "register" => ret'.step \in 0..4]_vars

\* a register() has issued its fourth call
C21_Witness ==
    /\ ret.op = "register" /\ ret.pc = "await"
    /\ ret.step = 3
    /\ ret.sent.call = "verify_registration"

\* C22: a register() entered after a register() has failed at some step is
\* accepted and issues the four calls from the first one, in order, and when the
\* fourth succeeds it returns Ok with the status Registered(sender).
C22_RetryFromScratch ==
    [][failedAt # 0 =>
          /\ (ret'.op = "register" /\ ret'.turn = "entry") =>
                 /\ ret'.pc = "await"
                 /\ ret'.sent = Sent("is_address_registered", 0, ret'.arg)
          /\ IssuesNext(1, "mint_evm_tokens")
          /\ IssuesNext(2, "register_ic_agent")
          /\ IssuesNext(3, "verify_registration")
          /\ (ret'.op = "register" /\ ret'.step = 4 /\ ret'.got.kind = "ok") =>
                 /\ ret'.pc = "done" /\ ret'.res = "none"
                 /\ ACCOUNT_DATA_CELL' = Registered(ret'.arg)]_vars

\* a register() that failed at mint_evm_tokens with a transport failure has been
\* tried again and has succeeded
C22_Witness ==
    /\ failedAt = 2
    /\ Returned("register", "resume") /\ ret.step = 4 /\ ret.res = "none"
    /\ ACCOUNT_DATA_CELL = Registered(ret.arg)

\* the confirm() of such a sequence has found no receipt
AbsentReceiptUnregisters ==
    (scenarioA = 1 /\ Returned("confirm", "resume") /\ ret.got.kind = "ok"
        /\ ~ret.got.receipt.some) =>
        CONTRACT_REGISTRATION_STATE = Unregistered
\* the second deploy() of such a sequence has got its hash
RedeploySuccessStoresHash ==
    (scenarioA = 3 /\ ret.op = "deploy" /\ ret.turn = "resume" /\ ret.got.kind = "ok") =>
        /\ ret.pc = "done" /\ ret.res = "none"
        /\ ret.val = ret.got.val
        /\ CONTRACT_REGISTRATION_TX_HASH = ret.got.val
        /\ CONTRACT_REGISTRATION_STATE = RegistrationInProgress

\* C23: after a deploy() that returned a hash H and a confirm() that found no
\* receipt for H, the deployment status is Unregistered; the deploy() entered next
\* passes the entry check and submits its transaction, and when that succeeds it
\* returns the new hash, with the pending hash being the new one and the status
\* InProgress.
C23_RedeployAfterAbsentReceipt ==
    /\ [](AbsentReceiptUnregisters /\ RedeploySuccessStoresHash)
    /\ [][(scenarioA = 2 /\ ret'.op = "deploy" /\ ret'.turn = "entry") =>
              /\ ret'.pc = "await"
              /\ ret'.sent.call = "create_contract"
              /\ CONTRACT_REGISTRATION_STATE' = RegistrationInProgress]_vars

\* the second deploy() of such a sequence has succeeded with another hash than
\* the first
C23_Witness ==
    /\ scenarioA = 3
    /\ Returned("deploy", "resume") /\ ret.res = "none"
    /\ ret.val = 2 /\ ret.got = Reply(2)
    /\ CONTRACT_REGISTRATION_TX_HASH = 2


\* the two functions invoke() is used for
Invokes == {"add_pair", "update_answers"}

\* an invoke() entered while the deployment status is not Registered
InvokeNotDeployed ==
    (ret'.op \in Invokes /\ ret'.turn = "entry"
        /\ CONTRACT_REGISTRATION_STATE.tag # "Registered") =>
        /\ ret'.pc = "done"
        /\ ret'.res = "ContractNotRegistered"
        /\ ret'.sent = NoCall
        /\ UNCHANGED <<cells, pending>>

\* an invoke() submits one call: the turn that enters it suspends on one
\* call_message of value zero to the address given, and the turn that resumes it
\* returns without another call
SubmitsOneCallTo(a) ==
    /\ ret'.pc = "await"
    /\ ret'.sent.call = "call_message"
    /\ ret'.sent.value = U256_zero
    /\ ret'.sent.to = a
    /\ pending' = pending (+) SetToBag({Suspended("transact", 0, 1)})
InvokeResumeReturns ==
    ret'.op = "transact" => (ret'.pc = "done" /\ ret'.sent = NoCall)

\* C24 (as stated): invoke() entered while the deployment status is not
\* Registered fails with ContractNotRegistered, sends no remote call, takes no
\* nonce and changes no persisted cell; entered while it is Registered(a), it
\* submits exactly one call of value zero to a.
C24_InvokeSubmitsWhenDeployed ==
    [][/\ InvokeNotDeployed
       /\ (ret'.op \in Invokes /\ ret'.turn = "entry"
              /\ CONTRACT_REGISTRATION_STATE.tag = "Registered") =>
              SubmitsOneCallTo(CONTRACT_REGISTRATION_STATE.addr)
       /\ InvokeResumeReturns]_vars

\* C24 (amended): as above, but the call is submitted when the registration
\* status is Registered too; if it is not (the deployment status being
\* Registered), invoke() fails with "Account no registered yet", sends no
\* remote call, takes no nonce and changes no persisted cell.
C24_InvokeSubmitsWhenDeployedAndRegistered ==
    [][/\ InvokeNotDeployed
       /\ (ret'.op \in Invokes /\ ret'.turn = "entry"
              /\ CONTRACT_REGISTRATION_STATE.tag = "Registered") =>
              IF ACCOUNT_DATA_CELL.tag = "Registered"
              THEN SubmitsOneCallTo(CONTRACT_REGISTRATION_STATE.addr)
              ELSE /\ ret'.pc = "done"
                   /\ ret'.res = "Account no registered yet"
                   /\ ret'.sent = NoCall
                   /\ UNCHANGED <<cells, pending>>
       /\ InvokeResumeReturns]_vars

\* an update_answers() has submitted its call to the deployed contract
C24_Witness ==
    /\ ret.op = "update_answers" /\ ret.pc = "await"
    /\ CONTRACT_REGISTRATION_STATE.tag = "Registered"
    /\ ret.sent.to = CONTRACT_REGISTRATION_STATE.addr
    /\ ret.sent.value = U256_zero

\* what a read accessor has returned for the status st: the address a exactly
\* when st is Registered(a), and the failure named otherwise
Reflects(st, failure) ==
    /\ \A a \in H160 : (ret'.res = "none" /\ ret'.val = a) <=> st = Registered(a)
    /\ st.tag # "Registered" => ret'.res = failure
    /\ ret'.pc = "done" /\ ret'.sent = NoCall
    /\ UNCHANGED <<cells, pending>>

\* C25: get_self_address_in_evmc returns a exactly when the registration status
\* is Registered(a) and "Account no registered yet" otherwise;
\* get_aggregator_contract_address returns a exactly when the deployment status
\* is Registered(a) and ContractNotRegistered otherwise; neither changes a
\* persisted cell or the suspended calls.
C25_QueriesReflectStatus ==
    [][/\ ret'.op = "get_self_address_in_evmc" =>
              Reflects(ACCOUNT_DATA_CELL, "Account no registered yet")
       /\ ret'.op = "get_aggregator_contract_address" =>
              Reflects(CONTRACT_REGISTRATION_STATE, "ContractNotRegistered")]_vars

\* the contract's address has been read while the registration status is not
\* Registered any more and a register() is suspended
C25_Witness ==
    /\ Returned("get_aggregator_contract_address", "entry")
    /\ ret.res = "none" /\ CONTRACT_REGISTRATION_STATE = Registered(ret.val)
    /\ ACCOUNT_DATA_CELL = RegistrationInProgress

\* C26: reset() leaves the registration status Unregistered whatever it was, also
\* while a register() is suspended, and leaves the nonce counter, the deployment
\* status, the pending hash and the suspended calls as they were.
C26_ResetUnregisters ==
    [][ret'.op = "reset" =>
          /\ ACCOUNT_DATA_CELL' = Unregistered
          /\ ret'.pc = "done" /\ ret'.res = "none"
          /\ UNCHANGED <<NONCE_CELL, CONTRACT_REGISTRATION_STATE,
                         CONTRACT_REGISTRATION_TX_HASH, pending>>]_vars

\* reset() has run while a register() is suspended and a deployment awaits its
\* confirmation
C26_Witness ==
    /\ Returned("reset", "entry")
    /\ NumInFlight("register") = 1
    /\ ACCOUNT_DATA_CELL = Unregistered
    /\ CONTRACT_REGISTRATION_STATE = RegistrationInProgress
    /\ CONTRACT_REGISTRATION_TX_HASH # H256_zero

\* C27: the deployment status survives a restart: whatever status was set last
\* (Unregistered, RegistrationInProgress, Registered(a) for any 20-byte a), the
\* value decoded from the stored bytes after a restart is that status.
C27_StatusSurvivesRestart ==
    restarted => CONTRACT_REGISTRATION_STATE = status_set

\* the step is a call of a state-mutating endpoint by the principal
CalledBy(principal) ==
    \/ \E new \in Principals : OracleCanister_set_owner(principal, new)
    \/ \E evmc \in Principals : OracleCanister_set_evmc_principal(principal, evmc)
    \/ \E pair \in Pairs : OracleCanister_add_pair(principal, pair)
    \/ \E pair \in Pairs : OracleCanister_remove_pair(principal, pair)
    \/ \E pair_keys \in PairLists, api \in ApiType :
          OracleCanister_update_price(principal, pair_keys, api)
    \/ OracleCanister_start_feed_price_timer(principal)
    \/ \E from \in Addr : OracleCanister_register_self_in_evmc(principal, from)
    \/ OracleCanister_reset_self_account(principal)
    \/ OracleCanister_deploy_aggregator_contract(principal)
    \/ OracleCanister_confirm_aggregator_contract(principal)
    \/ OracleCanister_add_pair_in_aggregator(principal)
    \/ OracleCanister_update_answers(principal)

\* the call returned NotAuthorized and wrote nothing, sent nothing and started
\* no timer
Denied ==
    /\ ret'.pc = "done"
    /\ ret'.res = "NotAuthorized"
    /\ ret'.sent = NoCall
    /\ UNCHANGED <<cells, pending, shell>>

\* C28: a call of a state-mutating endpoint by a principal that is not the
\* owner returns NotAuthorized, changes no persisted state and starts no remote
\* call and no timer, whoever the owner is.
C28_OnlyOwnerMutates ==
    [][\A principal \in Principals :
          (principal # owner /\ CalledBy(principal)) => Denied]_vars

\* the turn in which a deploy() suspends for the first time
DeploySuspends ==
    ret'.op = "deploy" /\ ret'.turn = "entry" /\ ret'.pc = "await"

\* C29: the turn in which deploy() first suspends is the turn that found the
\* deployment status Unregistered, wrote RegistrationInProgress, took the nonce
\* stamped in the create_contract it sends and incremented the counter; a
\* deploy() gets suspended in no other turn, so nothing runs between its status
\* check and its nonce increment.
C29_DeployCheckAndNonceInOneTurn ==
    [][/\ DeploySuspends =>
              /\ CONTRACT_REGISTRATION_STATE = Unregistered
              /\ CONTRACT_REGISTRATION_STATE' = RegistrationInProgress
              /\ ret'.sent.call = "create_contract"
              /\ ret'.sent.nonce = NONCE_CELL
              /\ NONCE_CELL' = NONCE_CELL + 1
              /\ pending' = pending (+) SetToBag({Suspended("deploy", 0, 1)})
       /\ (NumInFlight("deploy")' > NumInFlight("deploy")) => DeploySuspends]_vars

\* a deploy() has suspended on create_contract while a confirm() is suspended
C29_Witness ==
    /\ ret.op = "deploy" /\ ret.turn = "entry" /\ ret.pc = "await"
    /\ NumInFlight("confirm") = 1
    /\ CONTRACT_REGISTRATION_STATE = RegistrationInProgress
    /\ NONCE_CELL = ret.sent.nonce + 1

\* the turn that resumes a submission (create_contract, call_message)
SubmissionResumes == ret'.op \in {"deploy", "transact"} /\ ret'.turn = "resume"

\* C30: a turn resumed with anything but InvalidNonce leaves the nonce counter
\* as it is; a submission that fails in transit or with another error of the
\* EVM canister returns that failure, and the counter stays where the
\* increment left it: the nonce issued is not given back.
C30_OnlyInvalidNonceRewrites ==
    [][/\ (ret'.turn = "resume" /\ ret'.got.kind # "invalid_nonce") =>
              NONCE_CELL' = NONCE_CELL
       /\ (SubmissionResumes /\ ret'.got.kind = "reject") =>
              (ret'.pc = "done" /\ ret'.res = "ic call failure")
       /\ (SubmissionResumes /\ ret'.got.kind = "evm_error") =>
              (ret'.pc = "done" /\ ret'.res = "transaction error")]_vars

\* the first deploy() has failed in transit: its nonce 1 is spent, the counter
\* is 2
C30_Witness ==
    /\ Returned("deploy", "resume")
    /\ ret.got = Reject
    /\ ret.res = "ic call failure"
    /\ NONCE_CELL = U256_one + 1

\* the turn changes the counter as get_nonce does: it stamps the value the
\* counter held in the submission it sends and leaves the counter one higher
IncrementedByGetNonce ==
    /\ ret'.pc = "await"
    /\ ret'.sent.call \in {"create_contract", "call_message"}
    /\ ret'.sent.nonce = NONCE_CELL
    /\ NONCE_CELL' = NONCE_CELL + 1

\* the turn changes the counter as process_call_result does: it resumes with
\* InvalidNonce and leaves the counter at the expected value reported
OverwrittenByReconcile ==
    /\ ret'.turn = "resume"
    /\ ret'.got.kind = "invalid_nonce"
    /\ NONCE_CELL' = ret'.got.expected

\* C31: every change of the nonce counter is an increment by one made by
\* get_nonce or an overwrite with the expected value of an InvalidNonce error
\* made by process_call_result; nothing else assigns the counter.
C31_NonceChangesOnlyTwoWays ==
    [][NONCE_CELL' # NONCE_CELL =>
          (IncrementedByGetNonce \/ OverwrittenByReconcile)]_vars

\* a step of register() has set the counter back to 1 while an invoke(), whose
\* nonce was taken after a deploy()'s, is suspended
C31_Witness ==
    /\ ret.op = "register" /\ ret.turn = "resume"
    /\ ret.got = InvalidNonce(1)
    /\ NONCE_CELL = 1
    /\ NumInFlight("transact") = 1

\* the turns of the registration machine and those of the deployment machine
\* (invoke() with them)
RegistrationTurn == ret'.op \in {"register", "reset"}
DeploymentTurn ==
    ret'.op \in {"deploy", "confirm", "add_pair", "update_answers", "transact"}

\* C32: no turn of register() or reset() changes the deployment status or the
\* pending hash, and no turn of deploy(), confirm() or invoke() changes the
\* registration status, whether the turn succeeds, fails or rolls back and
\* whatever is suspended meanwhile.
C32_StatusCellsArePrivate ==
    [][/\ RegistrationTurn =>
              UNCHANGED <<CONTRACT_REGISTRATION_STATE, CONTRACT_REGISTRATION_TX_HASH>>
       /\ DeploymentTurn => UNCHANGED ACCOUNT_DATA_CELL]_vars

\* a register() has rolled back while a deployment awaits its confirmation
C32_Witness ==
    /\ Returned("register", "resume")
    /\ ret.res # "none"
    /\ ACCOUNT_DATA_CELL = Unregistered
    /\ CONTRACT_REGISTRATION_STATE = RegistrationInProgress
    /\ CONTRACT_REGISTRATION_TX_HASH # H256_zero

\* C33: whenever the pending hash is not zero the deployment status is
\* RegistrationInProgress: a pending hash is never there with the status
\* Unregistered or Registered.
C33_PendingHashImpliesInProgress ==
    CONTRACT_REGISTRATION_TX_HASH # H256_zero =>
        CONTRACT_REGISTRATION_STATE = RegistrationInProgress

\* C34: once get_contract returns an address it returns that address ever
\* after, whatever deploy(), confirm() and invoke() calls run and however they
\* are interleaved.
C34_RegisteredIsAbsorbing ==
    [][get_contract(CONTRACT_REGISTRATION_STATE).ok =>
          get_contract(CONTRACT_REGISTRATION_STATE)' =
              get_contract(CONTRACT_REGISTRATION_STATE)]_vars

\* the entry of a call that submits a transaction: deploy() or invoke()
SubmissionEntered ==
    ret'.op \in {"deploy", "add_pair", "update_answers"} /\ ret'.turn = "entry"

\* C35: while the registration status is not Registered, a deploy() or an
\* invoke() returns a failure from its entry, with no remote call made and the
\* nonce counter as it was; a deploy() that fails on the missing account leaves
\* the deployment status Unregistered.
C35_NoAccountNoSubmission ==
    [][(SubmissionEntered /\ ACCOUNT_DATA_CELL.tag # "Registered") =>
          /\ ret'.pc = "done"
          /\ ret'.res # "none"
          /\ ret'.sent = NoCall
          /\ NONCE_CELL' = NONCE_CELL
          /\ pending' = pending
          /\ (ret'.op = "deploy" /\ ret'.res = "Account no registered yet") =>
                 CONTRACT_REGISTRATION_STATE' = Unregistered]_vars

\* a deploy() has failed on the missing account, after an earlier deploy() had
\* taken nonce 1 and the account was reset
C35_Witness ==
    /\ Returned("deploy", "entry")
    /\ ret.res = "Account no registered yet"
    /\ ACCOUNT_DATA_CELL = Unregistered
    /\ CONTRACT_REGISTRATION_STATE = Unregistered
    /\ NONCE_CELL = 2

\* the turn sends a submission (create_contract, call_message)
Submits ==
    ret'.pc = "await" /\ ret'.sent.call \in {"create_contract", "call_message"}

\* the turns that issue no nonce: those of register(), confirm(), reset() and
\* the two queries
NoNonceTurn ==
    ret'.op \in {"register", "confirm", "reset", "get_self_address_in_evmc",
                 "get_aggregator_contract_address"}

\* C36: the nonce counter advances only in the entry turn of a deploy() or an
\* invoke() that sends its submission, by exactly one and before the call is
\* suspended; the turns of register(), confirm(), reset() and the queries stamp
\* no nonce and, unless they resume with InvalidNonce, leave the counter as it
\* is.
C36_OnlySubmissionsAdvanceNonce ==
    [][/\ Submits =>
              /\ SubmissionEntered
              /\ NONCE_CELL' = NONCE_CELL + 1
       /\ (NONCE_CELL' # NONCE_CELL /\ ~Reconciles) => Submits
       /\ NoNonceTurn =>
              /\ ~Submits
              /\ ret'.sent.nonce = 0
              /\ ~Reconciles => NONCE_CELL' = NONCE_CELL]_vars

\* a confirm() has registered the contract with the counter where the deploy()
\* left it
C36_Witness ==
    /\ Returned("confirm", "resume")
    /\ ret.res = "none"
    /\ CONTRACT_REGISTRATION_STATE.tag = "Registered"
    /\ NONCE_CELL = U256_one + 1

=============================================================================
